---- MODULE Spec2Model ----
(***************************************************************************)
(* Model of the scan-and-render engine of share-and-tell                   *)
(* (electron-app/src/shared/shareAndTell.ts): scanDirectory, the comment   *)
(* overlay and runAndWrite, run against a small file tree.                 *)
(*                                                                         *)
(* Strings are sequences of one-character strings.  A normalised absolute  *)
(* path is held as its sequence of segments (no segment contains "/").     *)
(***************************************************************************)
EXTENDS Naturals, Integers, Sequences, FiniteSets, TLC

\* ------------------------------------------------------------------ bounds
MaxFiles == 1
MaxDepthBound == 2
MaxTime == 2
MaxFolders == 3
MaxStringLen == 3

\* --------------------------------------------------------- the file tree
\* Directory names of the tree below the scanned root, and their characters.
Names == {"A", "B", "A-"}

NameChars(n) ==
  CASE n = "A" -> <<"A">>
    [] n = "B" -> <<"B">>
    [] n = "A-" -> <<"A", "-">>
    [] n = "srv" -> <<"s", "r", "v">>
    [] n = "." -> <<".">>
    [] n = ".." -> <<".", ".">>
    [] OTHER -> <<n>>

\* realpath(rootPath) of an existing root.
ResolvedRoot == <<"srv">>

\* Paths below the root that the tree may hold, relative to the root.
TreePaths == {<<>>, <<"A">>, <<"A", "B">>, <<"A-">>}

EntryKinds == {"none", "dir", "unreadable", "link"}

\* A tree: every path is absent, a readable directory with some files, a
\* directory whose listing fails, or a symbolic link to the directory that
\* holds it (a cycle back to an ancestor).  Only directories have children.
WellFormedTree(f) ==
  /\ f[<<>>].kind # "link"
  /\ \A p \in TreePaths :
       /\ (f[p].kind # "dir") => (f[p].files = 0)
       /\ (p # <<>> /\ f[p].kind # "none") =>
             f[SubSeq(p, 1, Len(p) - 1)].kind \in {"dir", "unreadable"}
       /\ (f[<<>>].kind # "dir" /\ p # <<>>) => f[p].kind = "none"

Trees ==
  {f \in [TreePaths -> [kind : EntryKinds, files : 0..MaxFiles]] : WellFormedTree(f)}

\* ------------------------------------------------------------ the inputs
\* A comment-map key: absolute or relative, not yet normalised.
RelKey(segs) == [abs |-> FALSE, segs |-> segs]
AbsKey(segs) == [abs |-> TRUE, segs |-> segs]

\* Comment maps as Object.entries lists them, in insertion order.
CommentMaps ==
  { <<>>,
    << <<RelKey(<<"A">>), <<"x">>>> >>,
    << <<AbsKey(<<"srv", "A">>), <<"y">>>> >>,
    << <<RelKey(<<"A">>), <<"x">>>>, <<AbsKey(<<"srv", "A">>), <<"y">>>> >>,
    << <<RelKey(<<"A-", "..", "A", ".", "B">>), <<"x">>>> >> }

FormatLists == { <<"csv">> }

\* The clock readings at which a renderer may run.
Times == 1..MaxTime

\* An output base path: its directory and the characters of its last part.
OutputBasePath == [dir |-> <<"out">>, base |-> <<"report", ".", "txt">>]

VARIABLES
  fs,          \* the file tree being scanned
  options,     \* RunOptions: maxDepth, minFiles, comments, formats, outputBasePath
  aborted,     \* options.signal.aborted
  pc,          \* position of runAndWrite / scanDirectory
  commentMap,  \* normalised comments
  folders,     \* FolderInfo[] of the scan
  warnings,    \* string[] of the scan
  stack,       \* DirectoryFrame[]; the top is the last element
  frame,       \* the frame whose listing is in flight
  payloads,    \* rendered payloads still to be written
  outputs,     \* RunResponse.writtenFiles
  disk,        \* the files written: target path -> data
  error,       \* the error the run failed with, "" if none
  io,          \* the filesystem calls issued so far, in order
  fn,          \* the function called on its own, "" if none
  arg,         \* the argument of that call
  ret          \* what the call returned

scanVars == <<fs, options, aborted, pc, commentMap, folders, warnings, stack,
              frame, payloads, outputs, disk, error, io>>

callVars == <<fn, arg, ret>>

vars == <<fs, options, aborted, pc, commentMap, folders, warnings, stack,
          frame, payloads, outputs, disk, error, io, fn, arg, ret>>

NoFrame == [dirPath |-> <<>>, depth |-> 0]

\* ------------------------------------------------------- strings and paths
Last(s) == s[Len(s)]
Front(s) == SubSeq(s, 1, Len(s) - 1)

\* Collation order of the characters used (punctuation before letters).
CollationRank(c) ==
  CASE c = "-" -> 1
    [] c = "." -> 2
    [] c = "/" -> 3
    [] c = "\\" -> 4
    [] c = "&" -> 5
    [] c = "<" -> 6
    [] c = "A" -> 7
    [] c = "B" -> 8
    [] c = "r" -> 9
    [] c = "s" -> 10
    [] c = "v" -> 11
    [] OTHER -> 12

\* a.localeCompare(b): negative, zero or positive.
RECURSIVE localeCompare(_, _)
localeCompare(a, b) ==
  IF a = <<>> /\ b = <<>> THEN 0
  ELSE IF a = <<>> THEN -1
  ELSE IF b = <<>> THEN 1
  ELSE IF CollationRank(Head(a)) < CollationRank(Head(b)) THEN -1
  ELSE IF CollationRank(Head(a)) > CollationRank(Head(b)) THEN 1
  ELSE localeCompare(Tail(a), Tail(b))

\* segments.join(sep) over the characters of the segments.
RECURSIVE JoinChars(_, _)
JoinChars(segs, sep) ==
  IF segs = <<>> THEN <<>>
  ELSE IF Len(segs) = 1 THEN NameChars(segs[1])
  ELSE NameChars(Head(segs)) \o <<sep>> \o JoinChars(Tail(segs), sep)

\* The string of a normalised absolute path.
PathString(segs) == <<"/">> \o JoinChars(segs, "/")

\* path.join(dirPath, entry.name) for a plain entry name.
pathJoin(dirPath, name) == Append(dirPath, name)

\* path.resolve of a segment list: "." is dropped, ".." removes a segment.
RECURSIVE NormaliseSegs(_, _)
NormaliseSegs(done, rest) ==
  IF rest = <<>> THEN done
  ELSE IF Head(rest) = "." THEN NormaliseSegs(done, Tail(rest))
  ELSE IF Head(rest) = ".." THEN
    NormaliseSegs(IF done = <<>> THEN <<>> ELSE Front(done), Tail(rest))
  ELSE NormaliseSegs(Append(done, Head(rest)), Tail(rest))

pathResolve(segs) == NormaliseSegs(<<>>, segs)

RECURSIVE CommonPrefixLen(_, _)
CommonPrefixLen(a, b) ==
  IF a = <<>> \/ b = <<>> \/ Head(a) # Head(b) THEN 0
  ELSE 1 + CommonPrefixLen(Tail(a), Tail(b))

\* path.relative(root, target) as a segment list.
pathRelative(root, target) ==
  LET k == CommonPrefixLen(root, target) IN
  [i \in 1..(Len(root) - k) |-> ".."] \o SubSeq(target, k + 1, Len(target))

toRelativePath(root, target) ==
  LET relative == pathRelative(root, target) IN
  IF relative # <<>> THEN JoinChars(relative, "/") ELSE <<".">>

folderLabel(folder) ==
  LET label == [i \in 1..Len(folder.relativePath) |->
                  IF folder.relativePath[i] = "\\" THEN "/"
                  ELSE folder.relativePath[i]] IN
  IF Len(label) > 0 THEN label ELSE <<".">>

\* next[path.resolve(resolved)] = value, for the entries in order.
RECURSIVE NormaliseEntries(_, _, _)
NormaliseEntries(entries, root, next) ==
  IF entries = <<>> THEN next
  ELSE
    LET key == Head(entries)[1]
        value == Head(entries)[2]
        resolved == IF key.abs THEN key.segs ELSE root \o key.segs
        k == pathResolve(resolved)
    IN NormaliseEntries(Tail(entries), root,
         [x \in (DOMAIN next) \cup {k} |-> IF x = k THEN value ELSE next[x]])

\* A variant that does not resolve relative keys against the root.
normaliseCommentsUnjoined(comments, root) == NormaliseEntries(comments, <<>>, <<>>)

normaliseComments(comments, root) == NormaliseEntries(comments, root, <<>>)

\* A variant that takes the comment of a key the path starts with.
CommentForPrefix(map, dirPath) ==
  LET keys == {k \in DOMAIN map : \E n \in 0..Len(dirPath) : k = SubSeq(dirPath, 1, n)} IN
  IF keys = {} THEN <<>>
  ELSE map[CHOOSE k \in keys : \A j \in keys : Len(j) <= Len(k)]

\* commentMap[dirPath] ?? ""
CommentFor(map, dirPath) == IF dirPath \in DOMAIN map THEN map[dirPath] ELSE <<>>

\* ------------------------------------------------------------------ sorts
\* Array.prototype.sort is stable: an element goes after the ones it equals.
RECURSIVE InsertPath(_, _)
InsertPath(x, s) ==
  IF s = <<>> THEN <<x>>
  ELSE IF localeCompare(PathString(x), PathString(Head(s))) < 0 THEN <<x>> \o s
  ELSE <<Head(s)>> \o InsertPath(x, Tail(s))

RECURSIVE SortPathsUpTo(_, _)
SortPathsUpTo(s, n) ==
  IF n = 0 THEN <<>> ELSE InsertPath(s[n], SortPathsUpTo(s, n - 1))

\* childDirectories.sort((a, b) => a.localeCompare(b))
SortPaths(s) == SortPathsUpTo(s, Len(s))

RECURSIVE InsertFolder(_, _)
InsertFolder(x, s) ==
  IF s = <<>> THEN <<x>>
  ELSE IF localeCompare(folderLabel(x), folderLabel(Head(s))) < 0 THEN <<x>> \o s
  ELSE <<Head(s)>> \o InsertFolder(x, Tail(s))

RECURSIVE SortFoldersUpTo(_, _)
SortFoldersUpTo(s, n) ==
  IF n = 0 THEN <<>> ELSE InsertFolder(s[n], SortFoldersUpTo(s, n - 1))

\* folders.sort((a, b) => folderLabel(a).localeCompare(folderLabel(b)))
SortFolders(s) == SortFoldersUpTo(s, Len(s))

\* ------------------------------------------------------- the filesystem
NoDir == <<"ENOENT">>

\* The directory a path below the root resolves to, following links.
RECURSIVE ResolveFrom(_, _)
ResolveFrom(cur, rest) ==
  IF rest = <<>> THEN cur
  ELSE
    LET p == Append(cur, Head(rest)) IN
    IF p \notin TreePaths \/ fs[p].kind = "none" THEN NoDir
    ELSE IF fs[p].kind = "link" THEN ResolveFrom(cur, Tail(rest))
    ELSE ResolveFrom(p, Tail(rest))

RelativeSegs(dirPath) == SubSeq(dirPath, Len(ResolvedRoot) + 1, Len(dirPath))

ResolveDir(dirPath) == ResolveFrom(<<>>, RelativeSegs(dirPath))

FileNames == <<"f1", "f2", "f3", "f4">>

\* The Dirent type of an entry: lstat-based, so a link is never a directory.
DirentType(kind) == IF kind = "link" THEN "symlink" ELSE "dir"

isFile(entry) == entry.type = "file"
isDirectory(entry) == entry.type = "dir"
isSymbolicLink(entry) == entry.type = "symlink"

\* The entries of a directory of the tree, as a set.
EntriesOf(dir) ==
  {[name |-> n, type |-> DirentType(fs[Append(dir, n)].kind)] :
      n \in {m \in Names : Append(dir, m) \in TreePaths
                            /\ fs[Append(dir, m)].kind # "none"}}
  \cup {[name |-> FileNames[i], type |-> "file"] : i \in 1..fs[dir].files}

\* readdir(dirPath, {withFileTypes: true}) fails when the directory is gone
\* or may not be read.
ReaddirFails(dirPath) ==
  LET dir == ResolveDir(dirPath) IN dir = NoDir \/ fs[dir].kind # "dir"

ReaddirMessage(dirPath) ==
  IF ResolveDir(dirPath) = NoDir THEN "ENOENT: no such file or directory"
  ELSE "EACCES: permission denied"

\* The orders in which readdir may hand back a set of entries.
Orderings(S) ==
  {q \in [1..Cardinality(S) -> S] : \A i, j \in 1..Cardinality(S) : q[i] = q[j] => i = j}

\* ------------------------------------------------------- scanDirectory
\* `Skipped ${dirPath}: ${message}`
SkippedWarning(dirPath, message) ==
  <<"Skipped ">> \o PathString(dirPath) \o <<": ">> \o <<message>>

\* A variant that lets one more level through.
TooDeepByTwo(depth, maxDepth) == depth > maxDepth + 1

\* depth > maxDepth: the frame is discarded.
TooDeep(depth, maxDepth) == depth > maxDepth

\* A variant that ignores the threshold.
QualifiesAnyCount(depth, fileCount, minFiles) == depth = 0 \/ fileCount >= 0

\* depth === 0 || fileCount >= minFiles
Qualifies(depth, fileCount, minFiles) == depth = 0 \/ fileCount >= minFiles

\* A variant that takes links to directories for directories.
IsChildDirectoryOrLink(entry) == isDirectory(entry) \/ isSymbolicLink(entry)

\* entry.isDirectory() && !entry.isSymbolicLink()
IsChildDirectory(entry) == isDirectory(entry) /\ ~isSymbolicLink(entry)

\* The filtered, joined and sorted child directories of a listing.
ChildDirectories(dirPath, dirEntries) ==
  LET kept == SelectSeq(dirEntries, IsChildDirectory)
      joined == [i \in 1..Len(kept) |-> pathJoin(dirPath, kept[i].name)]
  IN SortPaths(joined)

\* A variant whose loop pushes the first child a second time.
PushChildrenFirstTwice(stk, childDirectories, depth) ==
  stk \o [i \in 1..Len(childDirectories) |->
            [dirPath |-> childDirectories[Len(childDirectories) + 1 - i],
             depth |-> depth + 1]]
      \o (IF childDirectories = <<>> THEN <<>>
          ELSE <<[dirPath |-> childDirectories[1], depth |-> depth + 1]>>)

\* The stack after pushing the children from the last down to the first.
PushChildren(stk, childDirectories, depth) ==
  stk \o [i \in 1..Len(childDirectories) |->
            [dirPath |-> childDirectories[Len(childDirectories) + 1 - i],
             depth |-> depth + 1]]

\* stack.pop(): the stack that is left.
StackAfterPop(stk) == Front(stk)

\* A variant that returns the folders in traversal order.
ReturnedFoldersUnsorted(fldrs) == fldrs

\* The folders returned: folders.sort(...) by label.
ReturnedFolders(fldrs) == SortFolders(fldrs)

IoCall(op, path) == [op |-> op, path |-> path]

\* A variant that checks the depth only.
ConfigurationErrorDepthOnly(maxDepth, minFiles) ==
  IF maxDepth < 0 THEN "maxDepth must be zero or greater" ELSE ""

\* Lines 22-27: the error thrown for the options, "" when they are valid.
ConfigurationError(maxDepth, minFiles) ==
  IF maxDepth < 0 THEN "maxDepth must be zero or greater"
  ELSE IF minFiles < 0 THEN "minFiles must be zero or greater"
  ELSE ""

\* Lines 22-29: the precondition checks, then realpath(rootPath) is issued.
ScanStart ==
  /\ pc = "start"
  /\ IF ConfigurationError(options.maxDepth, options.minFiles) # "" THEN
       /\ pc' = "failed"
       /\ error' = ConfigurationError(options.maxDepth, options.minFiles)
       /\ io' = io
     ELSE
       /\ pc' = "realpath"
       /\ error' = error
       /\ io' = Append(io, IoCall("realpath", options.rootPath))
  /\ UNCHANGED <<fn, arg, ret, fs, options, aborted, commentMap, folders, warnings, stack,
                 frame, payloads, outputs, disk>>

\* Lines 29-35: realpath returns; the scan state is set up.
RealpathReturn ==
  /\ pc = "realpath"
  /\ IF fs[<<>>].kind = "none" THEN
       /\ pc' = "failed"
       /\ error' = "ENOENT: no such file or directory"
       /\ UNCHANGED <<commentMap, folders, warnings, stack>>
     ELSE
       /\ pc' = "loop"
       /\ error' = error
       /\ commentMap' = normaliseComments(options.comments, ResolvedRoot)
       /\ folders' = <<>>
       /\ warnings' = <<>>
       /\ stack' = <<[dirPath |-> ResolvedRoot, depth |-> 0]>>
  /\ UNCHANGED <<fn, arg, ret, fs, options, aborted, frame, payloads, outputs, disk, io>>

\* A variant that leaves a frame that is too deep on the stack.
LoopPopKeepsDeepFrame ==
  /\ pc = "loop"
  /\ stack # <<>>
  /\ IF TooDeep(Last(stack).depth, options.maxDepth) THEN
       /\ pc' = "loop"
       /\ UNCHANGED <<stack, frame, io>>
     ELSE
       /\ pc' = "readdir"
       /\ stack' = StackAfterPop(stack)
       /\ frame' = Last(stack)
       /\ io' = Append(io, IoCall("readdir", Last(stack).dirPath))
  /\ UNCHANGED <<fn, arg, ret, fs, options, aborted, commentMap, folders, warnings,
                 payloads, outputs, disk, error>>

\* A variant that pops the next frame while a listing is still in flight.
LoopPopWhileListing ==
  /\ pc \in {"loop", "readdir"}
  /\ stack # <<>>
  /\ stack' = StackAfterPop(stack)
  /\ IF TooDeep(Last(stack).depth, options.maxDepth) THEN
       /\ pc' = pc
       /\ UNCHANGED <<frame, io>>
     ELSE
       /\ pc' = "readdir"
       /\ frame' = Last(stack)
       /\ io' = Append(io, IoCall("readdir", Last(stack).dirPath))
  /\ UNCHANGED <<fn, arg, ret, fs, options, aborted, commentMap, folders, warnings,
                 payloads, outputs, disk, error>>

\* Lines 37-50: a frame is popped; too deep, it is dropped; otherwise its
\* listing is issued.
LoopPop ==
  /\ pc = "loop"
  /\ stack # <<>>
  /\ stack' = StackAfterPop(stack)
  /\ IF TooDeep(Last(stack).depth, options.maxDepth) THEN
       /\ pc' = "loop"
       /\ UNCHANGED <<frame, io>>
     ELSE
       /\ pc' = "readdir"
       /\ frame' = Last(stack)
       /\ io' = Append(io, IoCall("readdir", Last(stack).dirPath))
  /\ UNCHANGED <<fn, arg, ret, fs, options, aborted, commentMap, folders, warnings,
                 payloads, outputs, disk, error>>

\* A variant that leaves the loop on a failed listing.
ReaddirFailLeavesLoop ==
  /\ pc = "readdir"
  /\ ReaddirFails(frame.dirPath)
  /\ warnings' = Append(warnings,
                        SkippedWarning(frame.dirPath, ReaddirMessage(frame.dirPath)))
  /\ stack' = <<>>
  /\ pc' = "loop"
  /\ UNCHANGED <<fn, arg, ret, fs, options, aborted, commentMap, folders, frame,
                 payloads, outputs, disk, error, io>>

\* Lines 51-54: the listing failed; a warning is pushed and the loop goes on.
ReaddirFail ==
  /\ pc = "readdir"
  /\ ReaddirFails(frame.dirPath)
  /\ warnings' = Append(warnings,
                        SkippedWarning(frame.dirPath, ReaddirMessage(frame.dirPath)))
  /\ pc' = "loop"
  /\ UNCHANGED <<fn, arg, ret, fs, options, aborted, commentMap, folders, stack, frame,
                 payloads, outputs, disk, error, io>>

\* A variant that pushes the children of a recorded folder only.
ReaddirOkPrunesBelowThreshold ==
  /\ pc = "readdir"
  /\ ~ReaddirFails(frame.dirPath)
  /\ \E dirEntries \in Orderings(EntriesOf(ResolveDir(frame.dirPath))) :
       LET dirPath == frame.dirPath
           depth == frame.depth
           fileCount == Len(SelectSeq(dirEntries, isFile))
           childDirectories == ChildDirectories(dirPath, dirEntries)
       IN
         IF Qualifies(depth, fileCount, options.minFiles) THEN
           /\ folders' =
                Append(folders,
                       [absolutePath |-> dirPath,
                        relativePath |-> toRelativePath(ResolvedRoot, dirPath),
                        depth |-> depth,
                        fileCount |-> fileCount,
                        comment |-> CommentFor(commentMap, dirPath)])
           /\ stack' = PushChildren(stack, childDirectories, depth)
         ELSE UNCHANGED <<folders, stack>>
  /\ pc' = "loop"
  /\ UNCHANGED <<fn, arg, ret, fs, options, aborted, commentMap, warnings, frame,
                 payloads, outputs, disk, error, io>>

\* Lines 56-75: the listing returned; the folder is recorded if it
\* qualifies and the child directories are pushed.
ReaddirOk ==
  /\ pc = "readdir"
  /\ ~ReaddirFails(frame.dirPath)
  /\ \E dirEntries \in Orderings(EntriesOf(ResolveDir(frame.dirPath))) :
       LET dirPath == frame.dirPath
           depth == frame.depth
           fileCount == Len(SelectSeq(dirEntries, isFile))
           childDirectories == ChildDirectories(dirPath, dirEntries)
       IN
         /\ folders' =
              IF Qualifies(depth, fileCount, options.minFiles) THEN
                Append(folders,
                       [absolutePath |-> dirPath,
                        relativePath |-> toRelativePath(ResolvedRoot, dirPath),
                        depth |-> depth,
                        fileCount |-> fileCount,
                        comment |-> CommentFor(commentMap, dirPath)])
              ELSE folders
         /\ stack' = PushChildren(stack, childDirectories, depth)
  /\ pc' = "loop"
  /\ UNCHANGED <<fn, arg, ret, fs, options, aborted, commentMap, warnings, frame,
                 payloads, outputs, disk, error, io>>

\* Lines 78-80: the stack is empty; the folders are sorted and returned.
LoopExit ==
  /\ pc = "loop"
  /\ stack = <<>>
  /\ folders' = ReturnedFolders(folders)
  /\ pc' = "scanned"
  /\ UNCHANGED <<fn, arg, ret, fs, options, aborted, commentMap, warnings, stack, frame,
                 payloads, outputs, disk, error, io>>

\* The caller aborts the signal while a call of the scan is in flight.
Abort ==
  /\ pc \in {"realpath", "readdir"}
  /\ ~aborted
  /\ aborted' = TRUE
  /\ UNCHANGED <<fn, arg, ret, fs, options, pc, commentMap, folders, warnings, stack, frame,
                 payloads, outputs, disk, error, io>>

\* ------------------------------------------------------------ renderers
\* value.replace(/c/g, replacement) for a one-character pattern.
RECURSIVE ReplaceAll(_, _, _)
ReplaceAll(value, c, replacement) ==
  IF value = <<>> THEN <<>>
  ELSE (IF Head(value) = c THEN replacement ELSE <<Head(value)>>)
         \o ReplaceAll(Tail(value), c, replacement)

\* A variant that escapes the ampersand last.
escapeHtmlAmpersandLast(value) ==
  ReplaceAll(
    ReplaceAll(
      ReplaceAll(
        ReplaceAll(
          ReplaceAll(value, "<", <<"&", "l", "t", ";">>),
          ">", <<"&", "g", "t", ";">>),
        "\"", <<"&", "q", "u", "o", "t", ";">>),
      "'", <<"&", "#", "x", "2", "7", ";">>),
    "&", <<"&", "a", "m", "p", ";">>)

\* Lines 275-282: the five replacements, in the order of the code.
escapeHtml(value) ==
  ReplaceAll(
    ReplaceAll(
      ReplaceAll(
        ReplaceAll(
          ReplaceAll(value, "&", <<"&", "a", "m", "p", ";">>),
          "<", <<"&", "l", "t", ";">>),
        ">", <<"&", "g", "t", ";">>),
      "\"", <<"&", "q", "u", "o", "t", ";">>),
    "'", <<"&", "#", "x", "2", "7", ";">>)

\* /[",\n]/.test(value)
CsvNeedsQuotes(value) ==
  \E i \in 1..Len(value) : value[i] \in {"\"", ",", "\n"}

\* A variant whose test leaves out the newline.
csvEscapeNoNewline(value) ==
  IF \E i \in 1..Len(value) : value[i] \in {"\"", ","} THEN
    <<"\"">> \o ReplaceAll(value, "\"", <<"\"", "\"">>) \o <<"\"">>
  ELSE value

\* Lines 284-289.
csvEscape(value) ==
  IF CsvNeedsQuotes(value) THEN
    <<"\"">> \o ReplaceAll(value, "\"", <<"\"", "\"">>) \o <<"\"">>
  ELSE value

DigitChars == <<"0", "1", "2", "3", "4", "5", "6", "7", "8", "9">>

\* n.toString(10) of a non-negative integer.
RECURSIVE NumberToString(_)
NumberToString(n) ==
  IF n < 10 THEN <<DigitChars[n + 1]>>
  ELSE NumberToString(n \div 10) \o <<DigitChars[(n % 10) + 1]>>

\* lines.join(sep) of a list of strings.
RECURSIVE JoinStrings(_, _)
JoinStrings(lines, sep) ==
  IF lines = <<>> THEN <<>>
  ELSE IF Len(lines) = 1 THEN lines[1]
  ELSE Head(lines) \o sep \o JoinStrings(Tail(lines), sep)

\* A variant that sorts the list itself.
SortedInPlace(list) == [input |-> SortFolders(list), sorted |-> SortFolders(list)]

\* [...result.folders].sort(...): the copy is sorted; `input` is the list
\* that was passed in, as it is after the call.
SortedCopy(list) == [input |-> list, sorted |-> SortFolders(list)]

\* The scan result after renderCsv or renderHtml has run on it.
ResultAfterSort(result) == [result EXCEPT !.folders = SortedCopy(result.folders).input]

CsvHeader ==
  <<"folder", ",", "absolute_path", ",", "depth", ",", "file_count", ",", "comment">>

\* Lines 140-147: the row of a folder.
CsvRow(folder) ==
  csvEscape(folderLabel(folder)) \o <<",">>
    \o csvEscape(PathString(folder.absolutePath)) \o <<",">>
    \o NumberToString(folder.depth) \o <<",">>
    \o NumberToString(folder.fileCount) \o <<",">>
    \o csvEscape(folder.comment)

\* A variant that writes the folders in the order given.
renderCsvUnsorted(result) ==
  JoinStrings(<<CsvHeader>> \o [i \in 1..Len(result.folders) |-> CsvRow(result.folders[i])],
              <<"\n">>) \o <<"\n">>

\* Lines 137-150.
renderCsv(result) ==
  LET sorted == SortedCopy(result.folders).sorted IN
  JoinStrings(<<CsvHeader>> \o [i \in 1..Len(sorted) |-> CsvRow(sorted[i])],
              <<"\n">>) \o <<"\n">>

\* JSON.stringify(document, null, 2): the text is one piece that stands for
\* the serialised document.
JsonStringify(document) == <<document>>

\* Lines 118-135: the folders are mapped in the order given.
renderJson(result, opts, now) ==
  JsonStringify(
  [generated_at |-> now,
   root |-> PathString(pathResolve(opts.rootPath)),
   max_depth |-> opts.maxDepth,
   min_files |-> opts.minFiles,
   folders |-> [i \in 1..Len(result.folders) |->
                  [folder |-> folderLabel(result.folders[i]),
                   absolute_path |-> PathString(result.folders[i].absolutePath),
                   depth |-> result.folders[i].depth,
                   file_count |-> result.folders[i].fileCount,
                   comment |-> result.folders[i].comment]],
   warnings |-> result.warnings])

\* label.split("/")
RECURSIVE SplitParts(_, _)
SplitParts(label, part) ==
  IF label = <<>> THEN <<part>>
  ELSE IF Head(label) = "/" THEN <<part>> \o SplitParts(Tail(label), <<>>)
  ELSE SplitParts(Tail(label), Append(part, Head(label)))

\* Line 238: the parts of a folder's label; none for the root.
LabelParts(folder) ==
  IF folderLabel(folder) = <<".">> THEN <<>> ELSE SplitParts(folderLabel(folder), <<>>)

\* new Map()
EmptyTree == [name \in {} |-> name]

\* Lines 239-246: the cursor walks down the parts, adding the missing nodes.
RECURSIVE InsertParts(_, _)
InsertParts(tree, parts) ==
  IF parts = <<>> THEN tree
  ELSE LET part == Head(parts)
           next == IF part \in DOMAIN tree THEN tree[part] ELSE EmptyTree
       IN [name \in (DOMAIN tree) \cup {part} |->
             IF name = part THEN InsertParts(next, Tail(parts)) ELSE tree[name]]

RECURSIVE BuildTreeUpTo(_, _)
BuildTreeUpTo(list, n) ==
  IF n = 0 THEN EmptyTree
  ELSE InsertParts(BuildTreeUpTo(list, n - 1), LabelParts(list[n]))

\* Lines 235-249.
buildTree(list) == BuildTreeUpTo(list, Len(list))

\* A variant that lists the entries from the last name to the first.
RECURSIVE SortedNamesDescending(_)
SortedNamesDescending(names) ==
  IF names = {} THEN <<>>
  ELSE LET first == CHOOSE x \in names : \A y \in names : localeCompare(x, y) >= 0
       IN <<first>> \o SortedNamesDescending(names \ {first})

\* [...tree.entries()].sort((a, b) => a[0].localeCompare(b[0])): the names.
RECURSIVE SortedNames(_)
SortedNames(names) ==
  IF names = {} THEN <<>>
  ELSE LET first == CHOOSE x \in names : \A y \in names : localeCompare(x, y) <= 0
       IN <<first>> \o SortedNames(names \ {first})

\* Lines 291-303: the text is a list of markup pieces and characters.
RECURSIVE renderOutline(_)
RECURSIVE OutlineItems(_, _)
OutlineItems(tree, entries) ==
  IF entries = <<>> THEN <<>>
  ELSE <<"<li><span class=\"folder\">">> \o escapeHtml(Head(entries)) \o <<"</span>">>
         \o renderOutline(tree[Head(entries)]) \o <<"</li>">>
         \o OutlineItems(tree, Tail(entries))

renderOutline(tree) ==
  IF DOMAIN tree = {} THEN <<"<p>No folders met the criteria.</p>">>
  ELSE <<"<ul>">> \o OutlineItems(tree, SortedNames(DOMAIN tree)) \o <<"</ul>">>

\* path.basename of a resolved path.
pathBasename(segs) == IF segs = <<>> THEN <<>> ELSE NameChars(Last(segs))

\* Lines 156-164.
OutlineHtml(list, opts) ==
  LET rootInfo == {i \in 1..Len(list) : list[i].relativePath = <<".">>}
      rootComment ==
        IF rootInfo # {} /\
           list[CHOOSE i \in rootInfo : \A j \in rootInfo : i <= j].comment # <<>>
        THEN <<"<span class=\"comment\">">>
               \o escapeHtml(list[CHOOSE i \in rootInfo : \A j \in rootInfo : i <= j].comment)
               \o <<"</span>">>
        ELSE <<>>
      basename == pathBasename(pathResolve(opts.rootPath))
  IN <<"<div class=\"outline-root\"><span class=\"folder\">">>
       \o escapeHtml(IF basename # <<>> THEN basename ELSE PathString(opts.rootPath))
       \o <<"</span>">> \o rootComment \o renderOutline(buildTree(list)) \o <<"</div>">>

\* Lines 166-177: the table row of a folder.
HtmlRow(folder) ==
  <<"<tr><td>">> \o escapeHtml(folderLabel(folder))
    \o <<"</td><td class=\"num\">">> \o NumberToString(folder.depth)
    \o <<"</td><td class=\"num\">">> \o NumberToString(folder.fileCount)
    \o <<"</td><td>">> \o escapeHtml(folder.comment) \o <<"</td></tr>">>

RECURSIVE WarningItems(_)
WarningItems(list) ==
  IF list = <<>> THEN <<>>
  ELSE <<"<li>">> \o escapeHtml(Head(list)) \o <<"</li>">> \o WarningItems(Tail(list))

\* Lines 180-184.
WarningsHtml(list) ==
  IF Len(list) # 0 THEN
    <<"<section><h2>Warnings</h2><ul class=\"warnings\">">> \o WarningItems(list)
      \o <<"</ul></section>">>
  ELSE <<>>

\* The decimal text of options.maxDepth and options.minFiles.
OptionNumber(n) == IF n < 0 THEN <<"-">> \o NumberToString(0 - n) ELSE NumberToString(n)

\* Lines 152-233; `now` is new Date().toISOString() at the time of the call.
renderHtml(result, opts, now) ==
  LET list == SortedCopy(result.folders).sorted IN
  <<"<!DOCTYPE html><html lang=\"en\"><head></head><body><h1>Share and Tell Report</h1>",
    "<section class=\"metadata\"><span><strong>Root:</strong>&nbsp;">>
    \o escapeHtml(PathString(pathResolve(opts.rootPath)))
    \o <<"</span><span><strong>Max Depth:</strong>&nbsp;">> \o OptionNumber(opts.maxDepth)
    \o <<"</span><span><strong>Min Files:</strong>&nbsp;">> \o OptionNumber(opts.minFiles)
    \o <<"</span><span><strong>Generated:</strong>&nbsp;">> \o escapeHtml(<<now>>)
    \o <<"</span></section>",
         "<section><h2>Folder Summary</h2><table><thead><tr><th>Folder</th><th>Depth</th><th>Files</th><th>Comment</th></tr></thead><tbody>">>
    \o JoinStrings([i \in 1..Len(list) |-> HtmlRow(list[i])], <<"\n">>)
    \o <<"</tbody></table></section>", "<section><h2>Outline View</h2>">>
    \o OutlineHtml(list, opts)
    \o <<"</section>">> \o WarningsHtml(result.warnings) \o <<"</body></html>">>

\* --------------------------------------------------------- runAndWrite
\* The index of the last "." of a file name, 0 when it has none.
LastDot(base) ==
  LET dots == {i \in 1..Len(base) : base[i] = "."} IN
  IF dots = {} THEN 0 ELSE CHOOSE i \in dots : \A k \in dots : k <= i

\* path.parse(filePath): the extension starts at the last "." of the last
\* part, unless that "." is its first character.
pathParse(filePath) ==
  LET dot == LastDot(filePath.base) IN
  IF dot <= 1 \/ filePath.base = <<".", ".">> THEN
    [dir |-> filePath.dir, base |-> filePath.base, name |-> filePath.base, ext |-> <<>>]
  ELSE
    [dir |-> filePath.dir, base |-> filePath.base,
     name |-> SubSeq(filePath.base, 1, dot - 1),
     ext |-> SubSeq(filePath.base, dot, Len(filePath.base))]

\* A variant that keeps the extension.
basePathWithExtension(filePath) == [dir |-> filePath.dir, base |-> filePath.base]

\* Lines 270-273: path.join(parsed.dir, parsed.name)
basePathWithoutExtension(filePath) ==
  [dir |-> pathParse(filePath).dir, base |-> pathParse(filePath).name]

\* `${baseFile}.${payload.format}`
TargetPath(baseFile, format) ==
  [dir |-> baseFile.dir, base |-> baseFile.base \o <<".", format>>]

\* path.dirname(targetPath)
pathDirname(targetPath) == targetPath.dir

\* new Date().toISOString() at clock reading t.
toISOString(t) ==
  CASE t = 1 -> "2026-01-01T00:00:00.000Z"
    [] t = 2 -> "2026-01-01T00:00:00.001Z"
    [] OTHER -> "2026-01-01T00:00:00.002Z"

\* Lines 92-106: the renderer of a format.
RenderFormat(format, result, opts, t) ==
  CASE format = "json" -> renderJson(result, opts, toISOString(t))
    [] format = "html" -> renderHtml(result, opts, toISOString(t))
    [] format = "csv" -> renderCsv(result)

\* The scan result after the renderer of a format has run on it.
ResultAfterRender(format, result) ==
  IF format \in {"html", "csv"} THEN ResultAfterSort(result) ELSE result

\* The scan result after the renderers of the formats from the i-th on.
RECURSIVE ResultAfterFormats(_, _, _)
ResultAfterFormats(result, formats, i) ==
  IF i > Len(formats) THEN result
  ELSE ResultAfterFormats(ResultAfterRender(formats[i], result), formats, i + 1)

\* Lines 91-106: one payload per requested format, in request order; a
\* format the switch does not know gets none.  clock[i] is the time at
\* which the i-th renderer runs.
RECURSIVE PayloadsFrom(_, _, _, _)
PayloadsFrom(result, opts, clock, i) ==
  IF i > Len(opts.formats) THEN <<>>
  ELSE (IF opts.formats[i] \in {"json", "html", "csv"}
        THEN <<[format |-> opts.formats[i],
                data |-> RenderFormat(opts.formats[i], result, opts, clock[i])]>>
        ELSE <<>>)
       \o PayloadsFrom(ResultAfterRender(opts.formats[i], result), opts, clock, i + 1)

Payloads(result, opts, clock) == PayloadsFrom(result, opts, clock, 1)

\* The clock readings of successive calls: time does not run backwards.
Clocks(n) == {c \in [1..n -> Times] : \A i, k \in 1..n : i <= k => c[i] <= c[k]}

CurrentTarget ==
  TargetPath(basePathWithoutExtension(options.outputBasePath), Head(payloads).format)

\* Lines 84-106: the scan has returned; the payloads are rendered.
Render ==
  /\ pc = "scanned"
  /\ \E clock \in Clocks(Len(options.formats)) :
       payloads' = Payloads([folders |-> folders, warnings |-> warnings], options, clock)
  /\ folders' = ResultAfterFormats([folders |-> folders, warnings |-> warnings],
                                   options.formats, 1).folders
  /\ outputs' = <<>>
  /\ pc' = "write"
  /\ UNCHANGED <<fn, arg, ret, fs, options, aborted, commentMap, warnings, stack,
                 frame, disk, error, io>>

\* Lines 108-110: the next payload's parent directory is created.
WriteNext ==
  /\ pc = "write"
  /\ payloads # <<>>
  /\ io' = Append(io, IoCall("mkdir", pathDirname(CurrentTarget)))
  /\ pc' = "mkdir"
  /\ UNCHANGED <<fn, arg, ret, fs, options, aborted, commentMap, folders, warnings, stack,
                 frame, payloads, outputs, disk, error>>

\* Line 111: mkdir returned; the file is written.
MkdirOk ==
  /\ pc = "mkdir"
  /\ io' = Append(io, IoCall("writeFile", CurrentTarget))
  /\ pc' = "writeFile"
  /\ UNCHANGED <<fn, arg, ret, fs, options, aborted, commentMap, folders, warnings, stack,
                 frame, payloads, outputs, disk, error>>

\* Line 110: mkdir failed; the run fails.
MkdirFail ==
  /\ pc = "mkdir"
  /\ pc' = "failed"
  /\ error' = "EACCES: permission denied, mkdir"
  /\ UNCHANGED <<fn, arg, ret, fs, options, aborted, commentMap, folders, warnings, stack,
                 frame, payloads, outputs, disk, io>>

\* Lines 111-112: the file was written; its path is put in the outputs.
WriteFileOk ==
  /\ pc = "writeFile"
  /\ disk' = [t \in (DOMAIN disk) \cup {CurrentTarget} |->
                IF t = CurrentTarget THEN Head(payloads).data ELSE disk[t]]
  /\ outputs' = [f \in (DOMAIN outputs) \cup {Head(payloads).format} |->
                   IF f = Head(payloads).format THEN CurrentTarget ELSE outputs[f]]
  /\ payloads' = Tail(payloads)
  /\ pc' = "write"
  /\ UNCHANGED <<fn, arg, ret, fs, options, aborted, commentMap, folders, warnings, stack,
                 frame, error, io>>

\* A variant that skips the format whose write failed and goes on.
WriteFileFailSkipsFormat ==
  /\ pc = "writeFile"
  /\ pc' = "write"
  /\ payloads' = Tail(payloads)
  /\ error' = "EACCES: permission denied, open"
  /\ UNCHANGED <<fn, arg, ret, fs, options, aborted, commentMap, folders, warnings, stack,
                 frame, outputs, disk, io>>

\* Line 111: writeFile failed; the run fails.
WriteFileFail ==
  /\ pc = "writeFile"
  /\ pc' = "failed"
  /\ error' = "EACCES: permission denied, open"
  /\ UNCHANGED <<fn, arg, ret, fs, options, aborted, commentMap, folders, warnings, stack,
                 frame, payloads, outputs, disk, io>>

\* Line 115: every payload is written; the response is returned.
Return ==
  /\ pc = "write"
  /\ payloads = <<>>
  /\ pc' = "returned"
  /\ UNCHANGED <<fn, arg, ret, fs, options, aborted, commentMap, folders, warnings, stack,
                 frame, payloads, outputs, disk, error, io>>

\* ------------------------------------------------------- specification
OptionsSet ==
  [rootPath : {ResolvedRoot},
   maxDepth : -1..MaxDepthBound,
   minFiles : -1..MaxFiles,
   comments : CommentMaps,
   formats : FormatLists,
   outputBasePath : {OutputBasePath}]

Init ==
  /\ fs \in Trees
  /\ options \in OptionsSet
  /\ aborted = FALSE
  /\ pc = "start"
  /\ commentMap = <<>>
  /\ folders = <<>>
  /\ warnings = <<>>
  /\ stack = <<>>
  /\ frame = NoFrame
  /\ payloads = <<>>
  /\ outputs = <<>>
  /\ disk = <<>>
  /\ error = ""
  /\ io = <<>>
  /\ fn = ""
  /\ arg = <<>>
  /\ ret = <<>>

Next ==
  \/ ScanStart
  \/ RealpathReturn
  \/ LoopPop
  \/ ReaddirFail
  \/ ReaddirOk
  \/ LoopExit
  \/ Abort
  \/ Render
  \/ WriteNext
  \/ MkdirOk
  \/ MkdirFail
  \/ WriteFileOk
  \/ WriteFileFail
  \/ Return

Spec == Init /\ [][Next]_vars

\* The scans of every tree of empty directories, unreadable directories and
\* links under every valid depth, with one threshold, comment map and
\* format list (none of which the traversal's progress reads).
LiveInit ==
  /\ Init
  /\ \A p \in TreePaths : fs[p].files = 0
  /\ options.maxDepth >= 0
  /\ options.minFiles = 0
  /\ options.comments = <<>>
  /\ options.formats = <<"csv">>

\* The loop steps run to completion and every listing returns or fails.
FairSpec ==
  LiveInit /\ [][Next]_vars /\ WF_vars(ScanStart \/ RealpathReturn \/ LoopPop \/ ReaddirFail
                    \/ ReaddirOk \/ LoopExit)

\* ------------------------------------------ runs of runAndWrite alone
RunFormatLists ==
  {<<>>, <<"xml", "csv">>}
    \cup {<<f>> : f \in {"json", "html", "csv"}}
    \cup {<<f, g>> : f, g \in {"json", "html", "csv"}}

OutputBasePaths ==
  {[dir |-> <<"out">>, base |-> b] :
     b \in {<<"report">>, <<"report", ".", "txt">>, <<".", "report">>,
            <<"report", ".", "v2", ".", "txt">>}}

\* The scan options are fixed; the formats and the output base path vary.
RunOptionsSet ==
  [rootPath : {ResolvedRoot},
   maxDepth : {1},
   minFiles : {0},
   comments : {<<>>},
   formats : RunFormatLists,
   outputBasePath : OutputBasePaths]

RunSpecInit ==
  /\ fs \in {f \in Trees : \A p \in TreePaths : f[p].files = 0}
  /\ options \in RunOptionsSet
  /\ aborted = FALSE
  /\ pc = "start"
  /\ commentMap = <<>>
  /\ folders = <<>>
  /\ warnings = <<>>
  /\ stack = <<>>
  /\ frame = NoFrame
  /\ payloads = <<>>
  /\ outputs = <<>>
  /\ disk = <<>>
  /\ error = ""
  /\ io = <<>>
  /\ fn = ""
  /\ arg = <<>>
  /\ ret = <<>>

RunSpec == RunSpecInit /\ [][Next]_vars

\* ------------------------------------------- calls of the pure functions
\* The argument of a call: `value` is the string or the scan result that is
\* passed, as it is after the calls so far; `given` is what it was at first.
\* The strings of at most n characters over an alphabet.
RECURSIVE StringsUpTo(_, _)
StringsUpTo(alphabet, n) ==
  IF n = 0 THEN {<<>>}
  ELSE LET shorter == StringsUpTo(alphabet, n - 1) IN
       shorter \cup {Append(w, c) : w \in shorter, c \in alphabet}

\* The metacharacters of both escapes, the characters of the entities and an
\* ordinary character.
Alphabet == {",", "\"", "\n", "&", "<", ">", "'", ";", "l", "t", "a"}

Strings == StringsUpTo(Alphabet, MaxStringLen)

RenderRoot == <<"srv", "&">>

FolderRecord(segs, fileCount, comment) ==
  [absolutePath |-> RenderRoot \o segs,
   relativePath |-> toRelativePath(RenderRoot, RenderRoot \o segs),
   depth |-> Len(segs),
   fileCount |-> fileCount,
   comment |-> comment]

RenderFolders ==
  {FolderRecord(<<>>, 1, <<"a", ",", "\"">>),
   FolderRecord(<<"A">>, 2, <<>>),
   FolderRecord(<<"A", "B">>, 0, <<"<", "&">>),
   FolderRecord(<<"A-">>, 12, <<"\n">>),
   FolderRecord(<<"B", "<">>, 3, <<"'">>)}

RECURSIVE FolderListsUpTo(_)
FolderListsUpTo(n) ==
  IF n = 0 THEN {<<>>}
  ELSE LET shorter == FolderListsUpTo(n - 1) IN
       shorter \cup {Append(w, f) : w \in shorter, f \in RenderFolders}

RenderWarnings ==
  {<<>>,
   <<SkippedWarning(RenderRoot \o <<"B", "<">>, "EACCES: permission denied")>>,
   <<SkippedWarning(RenderRoot \o <<"A">>, "EACCES: permission denied"),
     <<"'", "&", "l", "t", ";", ",">> >>}

ScanResults == [folders : FolderListsUpTo(MaxFolders), warnings : RenderWarnings]

RenderOptions ==
  [rootPath |-> RenderRoot, maxDepth |-> 2, minFiles |-> 0, comments |-> <<>>,
   formats |-> <<>>, outputBasePath |-> OutputBasePath]

CallInit ==
  /\ fs = [p \in TreePaths |-> [kind |-> "none", files |-> 0]]
  /\ options = RenderOptions
  /\ aborted = FALSE
  /\ pc = "call"
  /\ commentMap = <<>>
  /\ folders = <<>>
  /\ warnings = <<>>
  /\ stack = <<>>
  /\ frame = NoFrame
  /\ payloads = <<>>
  /\ outputs = <<>>
  /\ disk = <<>>
  /\ error = ""
  /\ io = <<>>
  /\ fn = ""
  /\ arg \in {[kind |-> "string", value |-> v, given |-> v] : v \in Strings}
              \cup {[kind |-> "result", value |-> r, given |-> r] : r \in ScanResults}
  /\ ret = <<>>

CsvEscapeCall ==
  /\ arg.kind = "string"
  /\ fn' = "csvEscape"
  /\ ret' = csvEscape(arg.value)
  /\ UNCHANGED <<arg, scanVars>>

EscapeHtmlCall ==
  /\ arg.kind = "string"
  /\ fn' = "escapeHtml"
  /\ ret' = escapeHtml(arg.value)
  /\ UNCHANGED <<arg, scanVars>>

RenderCsvCall ==
  /\ arg.kind = "result"
  /\ fn' = "renderCsv"
  /\ ret' = renderCsv(arg.value)
  /\ arg' = [arg EXCEPT !.value = ResultAfterSort(arg.value)]
  /\ UNCHANGED scanVars

RenderHtmlCall ==
  /\ arg.kind = "result"
  /\ fn' = "renderHtml"
  /\ \E t \in Times : ret' = renderHtml(arg.value, options, toISOString(t))
  /\ arg' = [arg EXCEPT !.value = ResultAfterSort(arg.value)]
  /\ UNCHANGED scanVars

RenderJsonCall ==
  /\ arg.kind = "result"
  /\ fn' = "renderJson"
  /\ \E t \in Times : ret' = renderJson(arg.value, options, toISOString(t))
  /\ UNCHANGED <<arg, scanVars>>

CallNext ==
  \/ CsvEscapeCall
  \/ EscapeHtmlCall
  \/ RenderCsvCall
  \/ RenderHtmlCall
  \/ RenderJsonCall

CallSpec == CallInit /\ [][CallNext]_vars

\* ------------------------------------------------------------ properties
Range(s) == {s[i] : i \in 1..Len(s)}

AbsolutePath(p) == ResolvedRoot \o p

\* The listings issued so far.
Listed == {c.path : c \in {d \in Range(io) : d.op = "readdir"}}

ScanReturned == pc \in {"scanned", "write", "mkdir", "writeFile", "returned"}

ValidOptions == options.maxDepth >= 0 /\ options.minFiles >= 0

Prefixes(p) == {SubSeq(p, 1, k) : k \in 0..Len(p)}

\* C1: every recorded folder has depth <= maxDepth and is the root or has
\* at least minFiles files, in every state of the traversal and in the result.
C1_FoldersWithinPolicy ==
  \A i \in 1..Len(folders) :
    /\ folders[i].depth <= options.maxDepth
    /\ (folders[i].depth = 0 \/ folders[i].fileCount >= options.minFiles)

\* A scan returned with a folder below the root recorded and another
\* directory listed but left out.
C1_Witness ==
  /\ pc = "scanned"
  /\ \E i \in 1..Len(folders) : folders[i].depth > 0
  /\ Cardinality(Listed) > Len(folders) + Len(warnings)

\* C2: every result a valid scan returns holds a record for the root
\* (relativePath ".", depth 0), whatever the listing of the root did.
C2_RootAlwaysPresent ==
  (pc = "scanned" /\ ValidOptions) =>
     \E i \in 1..Len(folders) :
        folders[i].relativePath = <<".">> /\ folders[i].depth = 0

\* C3: the traversal loop eventually empties its stack and returns.
C3_TraversalTerminates ==
  [](pc \in {"loop", "readdir"} => <>(pc = "scanned" /\ stack = <<>>))

\* A scan returned from a tree in which a listed directory holds a link
\* back to itself.
C3_Witness ==
  /\ pc = "scanned"
  /\ \E p \in TreePaths \ {<<>>} :
       fs[p].kind = "link" /\ fs[Front(p)].kind = "dir"
         /\ AbsolutePath(Front(p)) \in Listed

IsLink(dirPath) ==
  RelativeSegs(dirPath) \notin TreePaths \/ fs[RelativeSegs(dirPath)].kind = "link"

ReaddirMessages ==
  {"ENOENT: no such file or directory", "EACCES: permission denied"}

\* C4: no frame is pushed for a symbolic link; a link is never listed,
\* never recorded and never warned about.
C4_LinksNeverDescended ==
  /\ \A i \in 1..Len(stack) : ~IsLink(stack[i].dirPath)
  /\ \A d \in Listed : ~IsLink(d)
  /\ \A i \in 1..Len(folders) : ~IsLink(folders[i].absolutePath)
  /\ \A p \in TreePaths : \A m \in ReaddirMessages :
       fs[p].kind = "link" => SkippedWarning(AbsolutePath(p), m) \notin Range(warnings)

\* A scan returned after listing a directory that holds a link.
C4_Witness ==
  /\ pc \in {"scanned", "returned"}
  /\ \E p \in TreePaths \ {<<>>} :
       fs[p].kind = "link" /\ AbsolutePath(Front(p)) \in Listed
         /\ Len(p) <= options.maxDepth

\* The directories below the root whose listing was tried and failed.
FailedBelowRoot ==
  {p \in TreePaths \ {<<>>} : AbsolutePath(p) \in Listed /\ fs[p].kind = "unreadable"}

Siblings(p) ==
  {q \in TreePaths \ {<<>>, p} :
      Len(q) = Len(p) /\ Front(q) = Front(p) /\ fs[q].kind \in {"dir", "unreadable"}}

WarningsFor(p) ==
  {i \in 1..Len(warnings) :
      warnings[i] = SkippedWarning(AbsolutePath(p), "EACCES: permission denied")}

ScanErrors ==
  {"maxDepth must be zero or greater", "minFiles must be zero or greater",
   "ENOENT: no such file or directory"}

\* C5: a directory below the root that fails to list does not fail the
\* scan; the result has exactly one warning "Skipped <path>: <cause>" for
\* it, holds neither it nor a descendant of it, and its siblings are listed.
C5_FailedListingSkipped ==
  \A p \in FailedBelowRoot :
    /\ ~(pc = "failed" /\ error \in ScanErrors)
    /\ ScanReturned =>
         /\ Cardinality(WarningsFor(p)) = 1
         /\ \A i \in 1..Len(folders) :
              AbsolutePath(p) \notin Prefixes(folders[i].absolutePath)
         /\ \A q \in Siblings(p) : AbsolutePath(q) \in Listed

\* A scan returned after a directory with a child and a sibling failed.
C5_Witness ==
  /\ pc = "scanned"
  /\ \E p \in FailedBelowRoot :
       /\ Siblings(p) # {}
       /\ \E c \in TreePaths : Len(c) = Len(p) + 1 /\ Front(c) = p
                                /\ fs[c].kind = "dir"

\* The directories the policy selects: reached through readable
\* directories, within the depth, the root or with enough files.
Selected ==
  {p \in TreePaths :
     /\ \A q \in Prefixes(p) : fs[q].kind = "dir"
     /\ Len(p) <= options.maxDepth
     /\ (p = <<>> \/ fs[p].files >= options.minFiles)}

\* C6: the returned folders are in non-decreasing order of label and are
\* the one sorted listing of the selected directories, whatever order the
\* entries were handed back, pushed and popped in.
C6_ReturnedSorted ==
  ScanReturned =>
    /\ \A i, j \in 1..Len(folders) :
         i < j => localeCompare(folderLabel(folders[i]), folderLabel(folders[j])) <= 0
    /\ {folders[i].absolutePath : i \in 1..Len(folders)}
         = {AbsolutePath(p) : p \in Selected}
    /\ Len(folders) = Cardinality(Selected)

\* A scan returned three folders that the traversal met in another order
\* than the order of their labels.
C6_Witness ==
  /\ pc = "scanned"
  /\ {AbsolutePath(<<"A", "B">>), AbsolutePath(<<"A-">>)}
        \subseteq {folders[i].absolutePath : i \in 1..Len(folders)}

\* C7: once the signal is aborted between two visits, no further
\* directory is visited and the scan returns what it has.
C7_CancelStopsScan ==
  [][(aborted /\ pc = "loop") => (pc' = "scanned")]_vars

Writes == {c \in Range(io) : c.op \in {"mkdir", "writeFile"}}

\* C8: with maxDepth < 0 or minFiles < 0 the scan fails before any
\* filesystem call, and the run creates no directory and writes no file.
C8_InvalidOptionsNoIo ==
  ~ValidOptions =>
     /\ io = <<>>
     /\ disk = <<>>
     /\ pc \in {"start", "failed"}
     /\ pc = "failed" =>
          error \in {"maxDepth must be zero or greater",
                     "minFiles must be zero or greater"}

\* A run failed on a negative minFiles alone.
C8_Witness ==
  pc = "failed" /\ options.minFiles < 0 /\ options.maxDepth >= 0

\* C9: when the root does not exist or cannot be listed, the run creates
\* no directory and writes no file.
C9_UnreadableRootNoOutput ==
  fs[<<>>].kind # "dir" => (Writes = {} /\ disk = <<>> /\ pc # "returned")

\* The keys of the map that name a folder once normalised.
KeysFor(folder) ==
  {i \in 1..Len(options.comments) :
      pathResolve(IF options.comments[i][1].abs THEN options.comments[i][1].segs
                  ELSE ResolvedRoot \o options.comments[i][1].segs)
        = folder.absolutePath}

\* The keys that are literally the relative or the absolute path of a folder.
LiteralKeysFor(folder) ==
  {i \in 1..Len(options.comments) :
      \/ options.comments[i][1] = RelKey(RelativeSegs(folder.absolutePath))
      \/ options.comments[i][1] = AbsKey(folder.absolutePath)}

SetMax(S) == CHOOSE x \in S : \A y \in S : y <= x

\* C10 as stated: a folder has the text of every key that is its relative
\* or its absolute path, and "" when no key matches it.
C10_CommentOfAnyKey ==
  ScanReturned =>
    \A n \in 1..Len(folders) :
      /\ \A i \in LiteralKeysFor(folders[n]) :
           folders[n].comment = options.comments[i][2]
      /\ KeysFor(folders[n]) = {} => folders[n].comment = <<>>

\* C10: a folder has the text of the last key, in the map's entry order,
\* that normalises to its absolute path, and "" when there is none.
C10_CommentOfLastKey ==
  ScanReturned =>
    \A n \in 1..Len(folders) :
      IF KeysFor(folders[n]) = {} THEN folders[n].comment = <<>>
      ELSE folders[n].comment = options.comments[SetMax(KeysFor(folders[n]))][2]

\* A scan returned a folder named by a relative and by an absolute key,
\* and a folder no key names.
C10_Witness ==
  /\ pc = "scanned"
  /\ \E n \in 1..Len(folders) :
       Cardinality(LiteralKeysFor(folders[n])) = 2 /\ folders[n].comment = <<"y">>
  /\ \E n \in 1..Len(folders) : KeysFor(folders[n]) = {} /\ folders[n].comment = <<>>

\* The absolute path a key of the comment map stands for.
NormalisedKey(i) ==
  pathResolve(IF options.comments[i][1].abs THEN options.comments[i][1].segs
              ELSE ResolvedRoot \o options.comments[i][1].segs)

\* C11: a folder has a comment other than "" only when some key of the map
\* normalises to exactly its absolute path, and then it is that key's text;
\* a key never gives its text to the ancestors or descendants of its directory.
C11_ExactMatchOnly ==
  ScanReturned =>
    \A n \in 1..Len(folders) :
      folders[n].comment # <<>> =>
        \E i \in 1..Len(options.comments) :
          /\ NormalisedKey(i) = folders[n].absolutePath
          /\ options.comments[i][2] = folders[n].comment

\* A scan returned a commented folder with its parent and a child of it
\* recorded without a comment.
C11_Witness ==
  /\ pc = "scanned"
  /\ \E n, a, d \in 1..Len(folders) :
       /\ folders[n].comment # <<>>
       /\ folders[a].absolutePath = Front(folders[n].absolutePath)
       /\ folders[a].comment = <<>>
       /\ Front(folders[d].absolutePath) = folders[n].absolutePath
       /\ folders[d].comment = <<>>

\* C12: no two folder records have the same absolutePath, nor the same
\* relativePath, in any state of the traversal or in the result.
C12_NoDuplicateFolders ==
  \A i, j \in 1..Len(folders) :
    i # j => /\ folders[i].absolutePath # folders[j].absolutePath
             /\ folders[i].relativePath # folders[j].relativePath

\* A scan returned every directory of a full tree.
C12_Witness ==
  pc = "scanned" /\ Len(folders) = Cardinality(TreePaths)

\* The formats of the request that have a renderer.
RequestedFormats == Range(options.formats) \cap {"json", "html", "csv"}

\* The texts a renderer may give for the result of the run.
RenderedTexts(f) ==
  {RenderFormat(f, [folders |-> folders, warnings |-> warnings], options, t) : t \in Times}

\* The run returned, and every requested format was written under the base.
WrittenUnder(base) ==
  pc = "returned" =>
    /\ \A f \in RequestedFormats :
         LET target == [dir |-> base.dir, base |-> base.base \o <<".", f>>] IN
         /\ target \in DOMAIN disk
         /\ disk[target] \in RenderedTexts(f)
         /\ f \in DOMAIN outputs
         /\ outputs[f] = target
    /\ DOMAIN outputs \subseteq Range(options.formats)

\* A file name up to its last "." that is not its first character.
StripExtension(base) ==
  LET dots == {i \in 2..Len(base) : base[i] = "."} IN
  IF dots = {} THEN base ELSE SubSeq(base, 1, SetMax(dots) - 1)

WriteErrors == {"EACCES: permission denied, mkdir", "EACCES: permission denied, open"}

\* C14: a failed mkdir or writeFile fails the run; after the failure nothing
\* more is written and no response is returned; a response that is returned
\* has every requested format in writtenFiles.
C14_WriteFailureFailsRun ==
  [][/\ (pc \in {"mkdir", "writeFile"} /\ error' \in WriteErrors) => pc' = "failed"
     /\ (pc = "failed" /\ error \in WriteErrors) =>
           (pc' = "failed" /\ disk' = disk /\ io' = io /\ outputs' = outputs)
     /\ pc' = "returned" => RequestedFormats \subseteq DOMAIN outputs']_vars

C14_Witness ==
  /\ pc = "failed"
  /\ error = "EACCES: permission denied, open"
  /\ Len(options.formats) = 2
  /\ Cardinality(DOMAIN disk) = 1
  /\ Len(payloads) = 1

\* The text w occurs in the text.
Occurs(w, text) ==
  \E k \in 0..(Len(text) - Len(w)) : SubSeq(text, k + 1, k + Len(w)) = w

\* A renderer was called on a scan result and has returned.
Rendered(f) == arg.kind = "result" /\ fn = f

\* C15: each warning of the scan result appears in the output of renderJson
\* (in its warnings array), of renderHtml (escaped) and of renderCsv (as it
\* is, or as a CSV field).
C15_WarningsInEveryFormat ==
  arg.kind = "result" =>
    \A i \in 1..Len(arg.value.warnings) :
      LET w == arg.value.warnings[i] IN
      /\ Rendered("renderJson") => w \in Range(ret[1].warnings)
      /\ Rendered("renderHtml") => Occurs(escapeHtml(w), ret)
      /\ Rendered("renderCsv") => (Occurs(w, ret) \/ Occurs(csvEscape(w), ret))

\* C16: two calls of a renderer on the same scan result and options, at
\* whatever times, give the same renderCsv text and the same renderHtml text;
\* two renderJson documents differ in generated_at at most.
C16_RenderTwiceIdentical ==
  [][(arg.kind = "result" /\ fn' = fn) =>
       /\ fn \in {"renderCsv", "renderHtml"} => ret' = ret
       /\ fn = "renderJson" =>
            [ret'[1] EXCEPT !.generated_at = ""] = [ret[1] EXCEPT !.generated_at = ""]]_vars

\* The standard rule for a quoted field body: a doubled quote is one quote.
RECURSIVE Undouble(_)
Undouble(body) ==
  IF body = <<>> THEN <<>>
  ELSE IF Len(body) >= 2 /\ body[1] = "\"" /\ body[2] = "\"" THEN
    <<"\"">> \o Undouble(SubSeq(body, 3, Len(body)))
  ELSE <<Head(body)>> \o Undouble(Tail(body))

IsQuoted(field) == Len(field) >= 2 /\ field[1] = "\"" /\ field[Len(field)] = "\""

\* The standard rule for a field: strip the enclosing quotes, un-double the
\* quotes inside.
ParseField(field) ==
  IF IsQuoted(field) THEN Undouble(SubSeq(field, 2, Len(field) - 1)) ELSE field

\* C17: parsing the field csvEscape emits gives the string back; the field
\* is quoted exactly when the string has a comma, a double quote or a
\* newline, and an unquoted field is the string itself.
C17_CsvEscapeRoundTrip ==
  (arg.kind = "string" /\ fn = "csvEscape") =>
    /\ ParseField(ret) = arg.value
    /\ IsQuoted(ret) <=> (\E i \in 1..Len(arg.value) : arg.value[i] \in {",", "\"", "\n"})
    /\ ~IsQuoted(ret) => ret = arg.value

C17_Witness ==
  /\ arg.kind = "string"
  /\ fn = "csvEscape"
  /\ arg.value = <<"\"", "\n", ",">>
  /\ ret = <<"\"", "\"", "\"", "\n", ",", "\"">>

\* The positions of the character c of a CSV text that are outside quotes:
\* those with an even number of quotes before them.
Breaks(text, c) ==
  {i \in 1..Len(text) :
     /\ text[i] = c
     /\ Cardinality({k \in 1..(i - 1) : text[k] = "\""}) % 2 = 0}

\* The pieces of a text between the given positions.
SplitAt(text, breaks) ==
  LET Nth(k) ==
        IF k = 0 THEN 0
        ELSE IF k > Cardinality(breaks) THEN Len(text) + 1
        ELSE CHOOSE x \in breaks : Cardinality({y \in breaks : y < x}) = k - 1
  IN [k \in 1..(Cardinality(breaks) + 1) |-> SubSeq(text, Nth(k - 1) + 1, Nth(k) - 1)]

\* The records of a CSV text by the standard rule: a newline ends a record
\* and a comma ends a field, except inside quotes; each field is parsed.
\* Text after the last newline is a record of its own.
ParseCsv(text) ==
  LET lines == SplitAt(text, Breaks(text, "\n"))
      kept == IF Last(lines) = <<>> THEN Front(lines) ELSE lines
  IN [k \in 1..Len(kept) |->
        LET fields == SplitAt(kept[k], Breaks(kept[k], ",")) IN
        [n \in 1..Len(fields) |-> ParseField(fields[n])]]

\* The number a decimal text stands for.
RECURSIVE ParseNumber(_)
ParseNumber(digits) ==
  IF digits = <<>> THEN 0
  ELSE 10 * ParseNumber(Front(digits))
         + (CHOOSE d \in 0..9 : DigitChars[d + 1] = Last(digits))

\* The folder a record of five fields stands for.
RecordFields(r) ==
  [folder |-> r[1], absolute_path |-> r[2], depth |-> ParseNumber(r[3]),
   file_count |-> ParseNumber(r[4]), comment |-> r[5]]

FolderFields(f) ==
  [folder |-> folderLabel(f), absolute_path |-> PathString(f.absolutePath),
   depth |-> f.depth, file_count |-> f.fileCount, comment |-> f.comment]

\* C18: the CSV text is the header line, then one record of five fields for
\* each of the n folders, in non-decreasing order of label whatever the
\* order of the input, and it ends with a newline.
C18_CsvDocument ==
  Rendered("renderCsv") =>
    LET list == arg.value.folders
        records == ParseCsv(ret)
    IN /\ SubSeq(ret, 1, 10) =
            <<"folder", ",", "absolute_path", ",", "depth", ",", "file_count", ",",
              "comment", "\n">>
       /\ Len(records) = Len(list) + 1
       /\ \A k \in 2..Len(records) : Len(records[k]) = 5
       /\ \A k \in 2..(Len(records) - 1) :
            localeCompare(records[k][1], records[k + 1][1]) <= 0
       /\ \A i \in 1..Len(list) :
            Cardinality({k \in 2..Len(records) : RecordFields(records[k]) = FolderFields(list[i])})
              = Cardinality({j \in 1..Len(list) : FolderFields(list[j]) = FolderFields(list[i])})
       /\ ret[Len(ret)] = "\n"

C18_Witness ==
  /\ Rendered("renderCsv")
  /\ Len(arg.value.folders) = 3
  /\ localeCompare(folderLabel(arg.value.folders[1]), folderLabel(arg.value.folders[2])) > 0
  /\ arg.value.folders[2].comment = <<"\n">>
  /\ arg.value.folders[3].comment = <<"a", ",", "\"">>
  /\ Len(ParseCsv(ret)) = 4

Entities ==
  {[text |-> <<"&", "a", "m", "p", ";">>, char |-> "&"],
   [text |-> <<"&", "l", "t", ";">>, char |-> "<"],
   [text |-> <<"&", "g", "t", ";">>, char |-> ">"],
   [text |-> <<"&", "q", "u", "o", "t", ";">>, char |-> "\""],
   [text |-> <<"&", "#", "x", "2", "7", ";">>, char |-> "'"]}

\* The entity a text starts with, if any.
EntityAt(text) ==
  {e \in Entities : Len(text) >= Len(e.text) /\ SubSeq(text, 1, Len(e.text)) = e.text}

\* The text with each of the five entities replaced by its character.
RECURSIVE DecodeEntities(_)
DecodeEntities(text) ==
  IF text = <<>> THEN <<>>
  ELSE IF EntityAt(text) # {} THEN
    LET e == CHOOSE x \in EntityAt(text) : TRUE IN
    <<e.char>> \o DecodeEntities(SubSeq(text, Len(e.text) + 1, Len(text)))
  ELSE <<Head(text)>> \o DecodeEntities(Tail(text))

\* The outline section of an HTML document.
OutlineOf(html) ==
  LET from == CHOOSE i \in 1..Len(html) :
                html[i] = "<div class=\"outline-root\"><span class=\"folder\">"
      to == CHOOSE i \in 1..Len(html) : html[i] = "</div>"
  IN SubSeq(html, from, to)

\* The list items of an outline, by position, each with its path: the names
\* of the items that enclose it, then its own name.
ItemPositions(outline) ==
  {i \in 1..Len(outline) : outline[i] = "<li><span class=\"folder\">"}

ItemDepth(outline, i) ==
  Cardinality({j \in ItemPositions(outline) : j <= i})
    - Cardinality({j \in 1..(i - 1) : outline[j] = "</li>"})

ItemName(outline, i) ==
  LET close == CHOOSE k \in (i + 1)..Len(outline) :
                 /\ outline[k] = "</span>"
                 /\ \A m \in (i + 1)..(k - 1) : outline[m] # "</span>"
  IN DecodeEntities(SubSeq(outline, i + 1, close - 1))

ItemPath(outline, i) ==
  [d \in 1..ItemDepth(outline, i) |->
     ItemName(outline,
              SetMax({j \in ItemPositions(outline) : j <= i /\ ItemDepth(outline, j) = d}))]

\* The segments of a label: the pieces between its "/"; the root has none.
Segments(label) ==
  IF label = <<".">> THEN <<>>
  ELSE SplitAt(label, {i \in 1..Len(label) : label[i] = "/"})

\* The non-empty prefixes of the segments of the folders' labels.
LabelPrefixes(list) ==
  UNION {{SubSeq(Segments(folderLabel(list[i])), 1, k) :
            k \in 1..Len(Segments(folderLabel(list[i])))} : i \in 1..Len(list)}

\* C19: the outline has an item at path p exactly when p is a non-empty
\* prefix of the segments of a folder's label (the root's label "." has no
\* segment), no path has two items, and the items with the same parent are
\* in lexical order of name.
C19_OutlineIsPrefixTree ==
  Rendered("renderHtml") =>
    LET outline == OutlineOf(ret)
        items == ItemPositions(outline)
    IN /\ {ItemPath(outline, i) : i \in items} = LabelPrefixes(arg.value.folders)
       /\ \A i, j \in items : i # j => ItemPath(outline, i) # ItemPath(outline, j)
       /\ \A i, j \in items :
            (i < j /\ Front(ItemPath(outline, i)) = Front(ItemPath(outline, j))) =>
               localeCompare(Last(ItemPath(outline, i)), Last(ItemPath(outline, j))) < 0

C19_Witness ==
  /\ Rendered("renderHtml")
  /\ Len(arg.value.folders) = 3
  /\ {folderLabel(arg.value.folders[i]) : i \in 1..3}
       = {<<"A", "/", "B">>, <<"A", "-">>, <<"B", "/", "<">>}
  /\ Cardinality(ItemPositions(OutlineOf(ret))) = 5
  /\ Occurs(<<"<li><span class=\"folder\">", "A", "</span>", "<ul>",
              "<li><span class=\"folder\">", "B", "</span>">>, ret)
  /\ Occurs(<<"<li><span class=\"folder\">", "B", "</span>", "<ul>",
              "<li><span class=\"folder\">", "&", "l", "t", ";", "</span>">>, ret)

\* No character of the text is a raw <, >, " or ', and each & starts one of
\* the five entities.  (The markup of a document is made of longer pieces.)
NoRawMetacharacter(text) ==
  \A i \in 1..Len(text) :
    /\ text[i] \notin {"<", ">", "\"", "'"}
    /\ text[i] = "&" => EntityAt(SubSeq(text, i, Len(text))) # {}

\* C20: the escaped text of a string has no raw <, >, " or ', has & only at
\* the start of an entity, and decodes to the string; the HTML document
\* holds the root path, the labels, the outline names, the comments and the
\* warnings in escaped form and no raw metacharacter outside its markup.
C20_HtmlEscaped ==
  /\ (arg.kind = "string" /\ fn = "escapeHtml") =>
        /\ NoRawMetacharacter(ret)
        /\ DecodeEntities(ret) = arg.value
  /\ Rendered("renderHtml") =>
        /\ NoRawMetacharacter(ret)
        /\ \A i \in 1..Len(arg.value.folders) :
             /\ Occurs(escapeHtml(folderLabel(arg.value.folders[i])), ret)
             /\ Occurs(escapeHtml(arg.value.folders[i].comment), ret)
        /\ \A i \in 1..Len(arg.value.warnings) :
             Occurs(escapeHtml(arg.value.warnings[i]), ret)

C20_Witness ==
  /\ arg.kind = "string"
  /\ fn = "escapeHtml"
  /\ arg.value = <<"&", "<", "'">>
  /\ ret = <<"&", "a", "m", "p", ";", "&", "l", "t", ";", "&", "#", "x", "2", "7", ";">>

\* The k-th smallest position of a set of positions.
NthPosition(positions, k) ==
  CHOOSE x \in positions : Cardinality({y \in positions : y < x}) = k - 1

\* The rows of the summary table of an HTML document, each as the folder it
\* shows: the four cells of the row, decoded.
TableRows(html) ==
  LET starts == {i \in 1..Len(html) : html[i] = "<tr><td>"}
      RowAt(i) ==
        LET end == CHOOSE k \in (i + 1)..Len(html) :
                     /\ html[k] = "</td></tr>"
                     /\ \A m \in (i + 1)..(k - 1) : html[m] # "</td></tr>"
            row == SubSeq(html, i + 1, end - 1)
            cells == SplitAt(row, {k \in 1..Len(row) :
                                     row[k] \in {"</td><td class=\"num\">", "</td><td>"}})
        IN [folder |-> DecodeEntities(cells[1]), depth |-> ParseNumber(cells[2]),
            file_count |-> ParseNumber(cells[3]), comment |-> DecodeEntities(cells[4])]
  IN [k \in 1..Cardinality(starts) |-> RowAt(NthPosition(starts, k))]

\* What a folder of the JSON document or a CSV record shows in a table row.
ShownFields(f) ==
  [folder |-> f.folder, depth |-> f.depth, file_count |-> f.file_count,
   comment |-> f.comment]

\* C21: the folders of the renderJson document are in non-decreasing order
\* of label, and position by position they show the label, depth, file
\* count and comment of the renderCsv records and of the rows of the
\* renderHtml table, for a sorted or an unsorted scan result.
C21_JsonInAuthoritativeOrder ==
  Rendered("renderJson") =>
    LET doc == ret[1].folders
        records == ParseCsv(renderCsv(arg.value))
        rows == TableRows(renderHtml(arg.value, options, toISOString(1)))
    IN /\ \A k \in 1..(Len(doc) - 1) : localeCompare(doc[k].folder, doc[k + 1].folder) <= 0
       /\ Len(records) = Len(doc) + 1
       /\ Len(rows) = Len(doc)
       /\ \A k \in 1..Len(doc) :
            /\ ShownFields(RecordFields(records[k + 1])) = ShownFields(doc[k])
            /\ rows[k] = ShownFields(doc[k])

\* The readdir calls issued so far, in order.
ReaddirCalls(log) == SelectSeq(log, LAMBDA c : c.op = "readdir")

\* C22: a listing is in flight from the step that issues it to the step in
\* which it returns or fails (pc = "readdir").  A readdir is issued, and a
\* frame is popped, only while no listing is in flight, one at a time; while
\* one is in flight the scan does nothing but wait for it.
C22_ListingsSequential ==
  [][/\ ReaddirCalls(io') # ReaddirCalls(io) =>
          /\ pc = "loop"
          /\ pc' = "readdir"
          /\ Len(ReaddirCalls(io')) = Len(ReaddirCalls(io)) + 1
     /\ Len(stack') < Len(stack) => (pc = "loop" /\ Len(stack') = Len(stack) - 1)
     /\ pc = "readdir" =>
          /\ io' = io
          /\ pc' \in {"readdir", "loop"}
          /\ pc' = "readdir" => UNCHANGED <<stack, frame, folders, warnings>>]_vars

C22_Witness ==
  /\ pc = "readdir"
  /\ Len(ReaddirCalls(io)) = 3
  /\ stack # <<>>
  /\ Len(folders) = 2

\* The directories reached through directories that all list successfully,
\* themselves included, links excluded.
ReachableListed == {p \in TreePaths : \A q \in Prefixes(p) : fs[q].kind = "dir"}

RecordedPaths == {folders[n].absolutePath : n \in 1..Len(folders)}

\* C23: when the scan has returned, every reachable directory that lists
\* successfully, is within maxDepth and has at least minFiles files is in
\* the result, with its depth and file count; one below the threshold (the
\* root apart) is not in the result, yet it was listed and its child
\* directories within maxDepth were listed in turn.
C23_FilterComplete ==
  ScanReturned =>
    \A p \in ReachableListed :
      Len(p) <= options.maxDepth =>
        /\ fs[p].files >= options.minFiles =>
             \E n \in 1..Len(folders) :
               /\ folders[n].absolutePath = AbsolutePath(p)
               /\ folders[n].depth = Len(p)
               /\ folders[n].fileCount = fs[p].files
        /\ (fs[p].files < options.minFiles /\ p # <<>>) =>
             /\ AbsolutePath(p) \notin RecordedPaths
             /\ AbsolutePath(p) \in Listed
             /\ \A c \in TreePaths :
                  (Len(c) = Len(p) + 1 /\ Front(c) = p /\ Len(c) <= options.maxDepth
                     /\ fs[c].kind \in {"dir", "unreadable"}) =>
                       AbsolutePath(c) \in Listed

\* The scenario of the specification at the scale of the model: the root and
\* A below the threshold, A/B at the threshold, A- with no file.
C23_Witness ==
  /\ pc = "scanned"
  /\ options.maxDepth = 2
  /\ options.minFiles = 1
  /\ fs[<<>>].files = 0
  /\ fs[<<"A">>].kind = "dir" /\ fs[<<"A">>].files = 0
  /\ fs[<<"A", "B">>].kind = "dir" /\ fs[<<"A", "B">>].files = 1
  /\ fs[<<"A-">>].kind = "dir" /\ fs[<<"A-">>].files = 0
  /\ RecordedPaths = {AbsolutePath(<<>>), AbsolutePath(<<"A", "B">>)}

\* The depth of an absolute path below the scanned root.
DepthOf(path) == Len(path) - Len(ResolvedRoot)

\* C24: no directory deeper than maxDepth is ever listed, recorded or warned
\* about, and no frame is pushed for a child of one, whether or not its
\* listing would fail.
C24_TooDeepNeverListed ==
  /\ \A d \in Listed : DepthOf(d) <= options.maxDepth
  /\ \A n \in 1..Len(folders) : DepthOf(folders[n].absolutePath) <= options.maxDepth
  /\ \A i \in 1..Len(warnings) :
       \A p \in TreePaths :
         Len(p) > options.maxDepth =>
           \A m \in ReaddirMessages : warnings[i] # SkippedWarning(AbsolutePath(p), m)
  /\ \A i \in 1..Len(stack) : stack[i].depth <= options.maxDepth + 1

C24_Witness ==
  /\ pc = "scanned"
  /\ options.maxDepth = 1
  /\ fs[<<"A", "B">>].kind = "unreadable"
  /\ AbsolutePath(<<"A">>) \in Listed
  /\ AbsolutePath(<<"A", "B">>) \notin Listed
  /\ warnings = <<>>
  /\ Len(folders) >= 2

\* C25: after any sequence of renderer calls on a scan result, its folders
\* and its warnings are what they were before the calls, and each output is
\* the one the renderer gives for the result as it was at first, whatever
\* was rendered before it.
C25_RenderersLeaveInput ==
  arg.kind = "result" =>
    /\ arg.value = arg.given
    /\ fn = "renderCsv" => ret = renderCsv(arg.given)
    /\ fn = "renderJson" =>
         \E t \in Times : ret = renderJson(arg.given, options, toISOString(t))
    /\ fn = "renderHtml" =>
         \E t \in Times : ret = renderHtml(arg.given, options, toISOString(t))

C25_Witness ==
  /\ Rendered("renderCsv")
  /\ Len(arg.given.folders) = 3
  /\ arg.given.folders # SortFolders(arg.given.folders)
  /\ arg.value.folders = arg.given.folders
  /\ ParseCsv(ret)[2][1] # folderLabel(arg.value.folders[1])

====
